---- MODULE Spec2Model ----
(***************************************************************************)
(* remongo: a generic repository (MongoRepository[T]) over one collection  *)
(* of a MongoDB database, and the filter normalizer ToBson.                *)
(*                                                                         *)
(* The state is the repository's two fields (Database, Model), the         *)
(* contents of the database's collections, the driver's ObjectID counter,  *)
(* and what one client of the repository observes of its last call: the    *)
(* arguments (call), the collection before the call (pre), the returned    *)
(* values (ret), the caller's destination after the call (dest) and the    *)
(* driver calls the operation made (driverCalls); pc is the client's       *)
(* position in the insert / find / delete / find scenario.                 *)
(***************************************************************************)
EXTENDS Integers, Sequences, FiniteSets, TLC

VARIABLES Database, Model, collections, nextId, pc, call, pre, ret, dest, driverCalls

vars == <<Database, Model, collections, nextId, pc, call, pre, ret, dest, driverCalls>>

\* Number of ObjectIDs the driver hands out in one run (bounds the inserts).
MaxId == 2

\* Longest model slice a caller passes to InsertMany / longest destination of Find.
MaxSlice == 2

----------------------------------------------------------------------------
(* Go values *)

Names == {"a", "b"}
Vals == {0, 1}
CollNames == {"users", "posts"}

ErrNil == "nil"
ErrNoDocuments == "mongo: no documents in result"
ErrNetwork == "server selection error"
ErrMarshal == "no encoder found"
ErrCommand == "unrecognized pipeline stage"
ErrEmptySlice == "must provide at least one element in input slice"

\* A scalar inside a filter: its Go (or BSON) type, and its payload.
Str(s) == [t |-> "string", s |-> s, n |-> 0]
GoInt(n) == [t |-> "int", s |-> "", n |-> n]
GoInt32(n) == [t |-> "int32", s |-> "", n |-> n]
GoInt64(n) == [t |-> "int64", s |-> "", n |-> n]
GoFunc == [t |-> "func", s |-> "", n |-> 0]

E(k, v) == [k |-> k, v |-> v]

\* A value of the model type T: Collection() is a property of the type, the
\* same for every value; Name and Val are its two bson fields.
T(c, name, val) == [collection |-> c, name |-> name, val |-> val]
ZeroT(c) == T(c, "", 0)

\* A *T: nil, or the address of a T.
NilPtr(c) == [isNil |-> TRUE, v |-> ZeroT(c)]
PtrTo(m) == [isNil |-> FALSE, v |-> m]

\* A stored document: its _id and the fields it has.
Doc(id, has, name, val) == [id |-> id, has |-> has, name |-> name, val |-> val]

\* A filter argument (interface{}): a *bson.D (form "PD", with the address it
\* points to), a bson.D passed by value (form "D"), or a bson.M (form "M").
Filter(form, addr, elems) == [form |-> form, addr |-> addr, elems |-> elems]

FilterElems ==
    { <<>>,
      <<E("name", Str("a"))>>,
      <<E("val", GoInt(1))>>,
      <<E("val", GoInt64(0))>>,
      <<E("name", GoFunc)>> }

Filters ==
    { Filter("PD", "p1", e) : e \in FilterElems } \cup
    { Filter("D", "", e) : e \in FilterElems } \cup
    { Filter("M", "", <<E("name", Str("a"))>>) }

NoFilter == Filter("none", "", <<>>)

----------------------------------------------------------------------------
(* bson.Marshal / bson.Unmarshal, as ToBson and the driver use them *)

MaxInt32 == (2^30 - 1) + 2^30
MinInt32 == (0 - MaxInt32) - 1
fitsIn32Bits(n) == MinInt32 <= n /\ n <= MaxInt32

\* The BSON value a Go scalar is written as (Encodable says whether it has an encoder).
EncodeValue(v) ==
    CASE v.t = "string" -> Str(v.s)
      [] v.t = "int" -> IF fitsIn32Bits(v.n) THEN GoInt32(v.n) ELSE GoInt64(v.n)
      [] v.t = "int32" -> GoInt32(v.n)
      [] v.t = "int64" -> GoInt64(v.n)
      [] OTHER -> GoFunc

Encodable(v) == v.t \in {"string", "int", "int32", "int64"}

\* bson.Marshal of a filter: the document's elements in order, each scalar as
\* its BSON type; an error when an element has no encoder.
Marshal(f) ==
    IF \A i \in 1..Len(f.elems) : Encodable(f.elems[i].v)
      THEN [err |-> ErrNil,
            data |-> [i \in 1..Len(f.elems) |->
                        E(f.elems[i].k, EncodeValue(f.elems[i].v))]]
      ELSE [err |-> ErrMarshal, data |-> <<>>]

\* bson.Unmarshal(data, &doc) with doc a nil *bson.D: a newly allocated
\* bson.D holding the elements as Go int32 / int64 / string.
Unmarshal(data) == [err |-> ErrNil, doc |-> Filter("PD", "new", data)]

\* ToBson without its fast path: every value is marshalled and unmarshalled.
ToBsonAlwaysMarshals(v) ==
    LET m == Marshal(v) IN
    IF m.err # ErrNil
      THEN [doc |-> NoFilter, err |-> m.err]
      ELSE LET u == Unmarshal(m.data) IN [doc |-> u.doc, err |-> u.err]

ToBson(v) ==
    IF v.form = "PD"
      THEN [doc |-> v, err |-> ErrNil]
      ELSE LET m == Marshal(v) IN
           IF m.err # ErrNil
             THEN [doc |-> NoFilter, err |-> m.err]
             ELSE LET u == Unmarshal(m.data) IN [doc |-> u.doc, err |-> u.err]

----------------------------------------------------------------------------
(* The driver's collection operations, as the repository calls them.  Each  *)
(* takes the documents of the collection (in natural order) and returns the  *)
(* driver's result; fail is the connection failing on this call.             *)

NoDoc == Doc(0, {}, "", 0)

\* Whether document d satisfies the equality constraint k: v of a filter.
FieldEq(d, k, v) ==
    CASE k = "name" -> "name" \in d.has /\ v.t = "string" /\ v.s = d.name
      [] k = "val" -> "val" \in d.has /\ v.t \in {"int32", "int64"} /\ v.n = d.val
      [] OTHER -> FALSE

Match(d, data) == \A i \in 1..Len(data) : FieldEq(d, data[i].k, data[i].v)

Matching(docs, data) == SelectSeq(docs, LAMBDA d : Match(d, data))

\* Index of the first document of docs that matches (0 when none does).
FirstMatch(docs, data) ==
    LET S == { i \in 1..Len(docs) : Match(docs[i], data) } IN
    IF S = {} THEN 0 ELSE CHOOSE i \in S : \A j \in S : i <= j

\* The document the driver writes for a value of type T (no omitempty tags).
EncodeModel(id, m) == Doc(id, {"name", "val"}, m.name, m.val)

\* bson decoding of document d into an existing T: a field the document does
\* not have keeps the destination's value (structs are not zeroed).
DecodeInto(d, m) ==
    [m EXCEPT !.name = IF "name" \in d.has THEN d.name ELSE @,
              !.val = IF "val" \in d.has THEN d.val ELSE @]

\* Decoding into a **T (res.Decode(&model), cursor.All's &slice[i]): a nil *T
\* is first set to a new zero T, then the T it points to is decoded into.
DecodePtr(d, p) == PtrTo(DecodeInto(d, IF p.isNil THEN ZeroT(p.v.collection) ELSE p.v))

\* Collection.FindOne + SingleResult: the first match after the skip option,
\* or ErrNoDocuments.
DriverFindOne(docs, f, opts, fail) ==
    LET m == Marshal(f) IN
    IF m.err # ErrNil THEN [err |-> m.err, doc |-> NoDoc]
    ELSE IF fail THEN [err |-> ErrNetwork, doc |-> NoDoc]
    ELSE LET ms == Matching(docs, m.data)
             left == IF "skip" \in opts /\ ms # <<>> THEN Tail(ms) ELSE ms
         IN IF left = <<>> THEN [err |-> ErrNoDocuments, doc |-> NoDoc]
                           ELSE [err |-> ErrNil, doc |-> Head(left)]

\* Collection.Find: a cursor over the matches (at most one with the limit
\* option); on an error the cursor is nil.
DriverFind(docs, f, opts, fail) ==
    LET m == Marshal(f) IN
    IF m.err # ErrNil THEN [err |-> m.err, isNil |-> TRUE, batch |-> <<>>]
    ELSE IF fail THEN [err |-> ErrNetwork, isNil |-> TRUE, batch |-> <<>>]
    ELSE LET ms == Matching(docs, m.data) IN
         [err |-> ErrNil, isNil |-> FALSE,
          batch |-> IF "limit" \in opts /\ ms # <<>> THEN <<Head(ms)>> ELSE ms]

\* Collection.Aggregate with a pipeline: "match" is a valid read-only stage,
\* "bad" a stage the server rejects.
DriverAggregate(docs, stage) ==
    IF stage = "bad" THEN [err |-> ErrCommand] ELSE [err |-> ErrNil]

\* A value handed to the driver as a document to insert: a *T, or a *[]T.
ModelValue(m) == [kind |-> "model", m |-> m, elems |-> <<>>]
SliceValue(ms) == [kind |-> "slice", m |-> ZeroT("users"), elems |-> ms]

\* Only a struct marshals as a top-level document; a slice would be a BSON array.
DocEncodable(v) == v.kind = "model"

\* Collection.InsertOne: the document gets the next ObjectID.
DriverInsertOne(docs, next, v, opts, fail) ==
    IF ~DocEncodable(v) THEN [err |-> ErrMarshal, docs |-> docs, next |-> next, ids |-> <<>>]
    ELSE IF fail THEN [err |-> ErrNetwork, docs |-> docs, next |-> next, ids |-> <<>>]
    ELSE [err |-> ErrNil, docs |-> Append(docs, EncodeModel(next, v.m)),
          next |-> next + 1, ids |-> <<next>>]

\* Collection.InsertMany: one document, and one identifier, per element of vs.
DriverInsertMany(docs, next, vs, opts, fail) ==
    IF vs = <<>> THEN [err |-> ErrEmptySlice, docs |-> docs, next |-> next, ids |-> <<>>]
    ELSE IF \E i \in 1..Len(vs) : ~DocEncodable(vs[i])
      THEN [err |-> ErrMarshal, docs |-> docs, next |-> next, ids |-> <<>>]
    ELSE IF fail THEN [err |-> ErrNetwork, docs |-> docs, next |-> next, ids |-> <<>>]
    ELSE [err |-> ErrNil,
          docs |-> docs \o [i \in 1..Len(vs) |-> EncodeModel(next + i - 1, vs[i].m)],
          next |-> next + Len(vs),
          ids |-> [i \in 1..Len(vs) |-> next + i - 1]]

\* An update document {"$set": {"val": n}}.
SetVal(n) == [op |-> "$set", k |-> "val", n |-> n]
Updates == { SetVal(n) : n \in Vals }

ApplyUpdate(d, u) == [d EXCEPT !.val = u.n, !.has = @ \cup {"val"}]

\* The document an upsert inserts: the filter's equality fields, then the update.
UpsertDoc(id, data) ==
    LET nameAt == { i \in 1..Len(data) : data[i].k = "name" /\ data[i].v.t = "string" }
        valAt == { i \in 1..Len(data) : data[i].k = "val" /\ data[i].v.t \in {"int32", "int64"} }
    IN Doc(id,
           (IF nameAt = {} THEN {} ELSE {"name"}) \cup (IF valAt = {} THEN {} ELSE {"val"}),
           IF nameAt = {} THEN "" ELSE data[CHOOSE i \in nameAt : TRUE].v.s,
           IF valAt = {} THEN 0 ELSE data[CHOOSE i \in valAt : TRUE].v.n)

NoWrite(err, docs, next) ==
    [err |-> err, docs |-> docs, next |-> next, modified |-> 0, deleted |-> 0]

\* Collection.UpdateOne: the first match is updated; with the upsert option
\* and no match a new document is inserted (ModifiedCount stays 0).
DriverUpdateOne(docs, next, f, u, opts, fail) ==
    LET m == Marshal(f) IN
    IF m.err # ErrNil THEN NoWrite(m.err, docs, next)
    ELSE IF fail THEN NoWrite(ErrNetwork, docs, next)
    ELSE LET i == FirstMatch(docs, m.data) IN
         IF i = 0
           THEN IF "upsert" \in opts
                  THEN [NoWrite(ErrNil, Append(docs, ApplyUpdate(UpsertDoc(next, m.data), u)),
                                next + 1) EXCEPT !.modified = 0]
                  ELSE NoWrite(ErrNil, docs, next)
           ELSE [NoWrite(ErrNil, [docs EXCEPT ![i] = ApplyUpdate(@, u)], next)
                   EXCEPT !.modified = IF ApplyUpdate(docs[i], u) = docs[i] THEN 0 ELSE 1]

\* Collection.UpdateMany: every match is updated.
DriverUpdateMany(docs, next, f, u, opts, fail) ==
    LET m == Marshal(f) IN
    IF m.err # ErrNil THEN NoWrite(m.err, docs, next)
    ELSE IF fail THEN NoWrite(ErrNetwork, docs, next)
    ELSE LET hit == { i \in 1..Len(docs) : Match(docs[i], m.data) } IN
         IF hit = {} /\ "upsert" \in opts
           THEN NoWrite(ErrNil, Append(docs, ApplyUpdate(UpsertDoc(next, m.data), u)), next + 1)
           ELSE [NoWrite(ErrNil,
                         [i \in 1..Len(docs) |->
                            IF i \in hit THEN ApplyUpdate(docs[i], u) ELSE docs[i]],
                         next)
                   EXCEPT !.modified =
                     Cardinality({ i \in hit : ApplyUpdate(docs[i], u) # docs[i] })]

\* Collection.ReplaceOne: the first match becomes the model's document, keeping its _id.
DriverReplaceOne(docs, next, f, v, opts, fail) ==
    LET m == Marshal(f) IN
    IF m.err # ErrNil THEN NoWrite(m.err, docs, next)
    ELSE IF ~DocEncodable(v) THEN NoWrite(ErrMarshal, docs, next)
    ELSE IF fail THEN NoWrite(ErrNetwork, docs, next)
    ELSE LET i == FirstMatch(docs, m.data) IN
         IF i = 0
           THEN IF "upsert" \in opts
                  THEN NoWrite(ErrNil, Append(docs, EncodeModel(next, v.m)), next + 1)
                  ELSE NoWrite(ErrNil, docs, next)
           ELSE [NoWrite(ErrNil, [docs EXCEPT ![i] = EncodeModel(@.id, v.m)], next)
                   EXCEPT !.modified = IF EncodeModel(docs[i].id, v.m) = docs[i] THEN 0 ELSE 1]

\* docs without its i-th element.
RemoveAt(docs, i) == SubSeq(docs, 1, i - 1) \o SubSeq(docs, i + 1, Len(docs))

\* Collection.DeleteOne: the first match is removed.
DriverDeleteOne(docs, next, f, opts, fail) ==
    LET m == Marshal(f) IN
    IF m.err # ErrNil THEN NoWrite(m.err, docs, next)
    ELSE IF fail THEN NoWrite(ErrNetwork, docs, next)
    ELSE LET i == FirstMatch(docs, m.data) IN
         IF i = 0 THEN NoWrite(ErrNil, docs, next)
         ELSE [NoWrite(ErrNil, RemoveAt(docs, i), next) EXCEPT !.deleted = 1]

\* Collection.DeleteMany: every match is removed.
DriverDeleteMany(docs, next, f, opts, fail) ==
    LET m == Marshal(f) IN
    IF m.err # ErrNil THEN NoWrite(m.err, docs, next)
    ELSE IF fail THEN NoWrite(ErrNetwork, docs, next)
    ELSE [NoWrite(ErrNil, SelectSeq(docs, LAMBDA d : ~Match(d, m.data)), next)
            EXCEPT !.deleted = Len(Matching(docs, m.data))]

----------------------------------------------------------------------------
(* MongoRepository[T] *)

GetDB == Database

\* GetCollection with another collection's name in place of the model's.
GetCollectionOfOtherModel == CHOOSE c \in CollNames : c # Model.collection

\* mr.Database.Collection(mr.Model.Collection()): the name of the collection.
GetCollection == Model.collection

\* One driver call, as the driver saw it: the method, the collection it was
\* made on, the filter and modifiers it received, and the error it returned.
DriverCall(method, coll, f, stage, opts, err) ==
    [method |-> method, coll |-> coll, filter |-> f, stage |-> stage,
     opts |-> opts, err |-> err]

\* What a repository method leaves behind: its return values (err, count, ids;
\* panic when it does not return), the caller's destination (the *T of FindOne,
\* the []*T of Find, as a sequence of *T), the collection's
\* documents, the ObjectID counter and the driver calls it made.
Result(err, count, ids, d, docs, next, calls) ==
    [err |-> err, count |-> count, ids |-> ids, panic |-> FALSE, dest |-> d,
     docs |-> docs, next |-> next, calls |-> calls]

Panic(d, docs, next, calls) ==
    [Result(ErrNil, 0, <<>>, d, docs, next, calls) EXCEPT !.panic = TRUE]

\* FindOne without the ErrNoDocuments case: every error of Decode is returned.
FindOneReturnsNoDocuments(model, filter, opts, fail) ==
    LET docs == collections[Model.collection]
        bson == ToBson(filter)
    IN IF bson.err # ErrNil
         THEN Result(bson.err, 0, <<>>, <<model>>, docs, nextId, <<>>)
         ELSE LET res == DriverFindOne(docs, bson.doc, {}, fail)
                  calls == <<DriverCall("FindOne", Model.collection, bson.doc, "", {}, res.err)>>
              IN IF res.err # ErrNil
                   THEN Result(res.err, 0, <<>>, <<model>>, docs, nextId, calls)
                   ELSE Result(ErrNil, 0, <<>>,
                               <<IF model.isNil THEN model ELSE DecodePtr(res.doc, model)>>,
                               docs, nextId, calls)

\* FindOne decoding into a T of its own instead of the caller's.
FindOneDecodesCopy(model, filter, opts, fail) ==
    LET docs == collections[Model.collection]
        bson == ToBson(filter)
    IN IF bson.err # ErrNil
         THEN Result(bson.err, 0, <<>>, <<model>>, docs, nextId, <<>>)
         ELSE LET res == DriverFindOne(docs, bson.doc, {}, fail)
                  calls == <<DriverCall("FindOne", Model.collection, bson.doc, "", {}, res.err)>>
              IN IF res.err # ErrNil /\ res.err # ErrNoDocuments
                   THEN Result(res.err, 0, <<>>, <<model>>, docs, nextId, calls)
                   ELSE Result(ErrNil, 0, <<>>, <<model>>, docs, nextId, calls)

FindOne(model, filter, opts, fail) ==
    LET docs == collections[GetCollection]
        bson == ToBson(filter)
    IN IF bson.err # ErrNil
         THEN Result(bson.err, 0, <<>>, <<model>>, docs, nextId, <<>>)
         ELSE LET res == DriverFindOne(docs, bson.doc, {}, fail)
                  calls == <<DriverCall("FindOne", GetCollection, bson.doc, "", {}, res.err)>>
              IN IF res.err # ErrNil
                   THEN IF res.err = ErrNoDocuments
                          THEN Result(ErrNil, 0, <<>>, <<model>>, docs, nextId, calls)
                          ELSE Result(res.err, 0, <<>>, <<model>>, docs, nextId, calls)
                   ELSE \* Decode(&model): with a nil model only the local copy is set
                        Result(ErrNil, 0, <<>>,
                               <<IF model.isNil THEN model ELSE DecodePtr(res.doc, model)>>,
                               docs, nextId, calls)

\* cursor.All(ctx, &models) as the caller of Find sees it: models is Find's
\* copy of the slice header, so the caller keeps its length; the elements the
\* two share are decoded into.  got is the number of documents decoded (all of
\* the batch, unless the cursor fails first).
CursorAll(batch, models, allFail, k) ==
    LET got == IF allFail /\ k < Len(batch) THEN k ELSE Len(batch) IN
    [err |-> IF allFail THEN ErrNetwork ELSE ErrNil,
     seen |-> [i \in 1..Len(models) |->
                 IF i <= got THEN DecodePtr(batch[i], models[i]) ELSE models[i]]]

\* Find returning the aggregation's error instead of dropping it.
FindReturnsAggregateError(models, filter, aggregate, opts, out) ==
    LET docs == collections[Model.collection]
        bson == ToBson(filter)
        aggErr == IF aggregate # "nil" THEN DriverAggregate(docs, aggregate).err ELSE ErrNil
    IN IF bson.err # ErrNil
         THEN Result(bson.err, 0, <<>>, models, docs, nextId, <<>>)
         ELSE LET agg == IF aggregate # "nil"
                           THEN <<DriverCall("Aggregate", Model.collection, NoFilter, aggregate,
                                             {}, aggErr)>>
                           ELSE <<>>
                  cursor == DriverFind(docs, bson.doc, opts, out.fail)
                  calls == Append(agg, DriverCall("Find", Model.collection, bson.doc, "",
                                                  opts, cursor.err))
              IN IF aggErr # ErrNil
                   THEN Result(aggErr, 0, <<>>, models, docs, nextId, agg)
                 ELSE IF cursor.isNil
                   THEN Panic(models, docs, nextId, calls)
                   ELSE LET all == CursorAll(cursor.batch, models, out.all, out.k) IN
                        Result(all.err, 0, <<>>, all.seen, docs, nextId,
                               Append(calls, DriverCall("Cursor.All", Model.collection,
                                                        NoFilter, "", {}, all.err)))

Find(models, filter, aggregate, opts, out) ==
    LET docs == collections[GetCollection]
        bson == ToBson(filter)
    IN IF bson.err # ErrNil
         THEN Result(bson.err, 0, <<>>, models, docs, nextId, <<>>)
         ELSE LET agg == IF aggregate # "nil"
                           THEN <<DriverCall("Aggregate", GetCollection, NoFilter, aggregate,
                                             {}, DriverAggregate(docs, aggregate).err)>>
                           ELSE <<>>
                  cursor == DriverFind(docs, bson.doc, opts, out.fail)
                  calls == Append(agg, DriverCall("Find", GetCollection, bson.doc, "",
                                                  opts, cursor.err))
              IN IF cursor.isNil
                   THEN \* cursor.All on the nil cursor: nil pointer dereference
                        Panic(models, docs, nextId, calls)
                   ELSE LET all == CursorAll(cursor.batch, models, out.all, out.k) IN
                        Result(all.err, 0, <<>>, all.seen, docs, nextId,
                               Append(calls, DriverCall("Cursor.All", GetCollection,
                                                        NoFilter, "", {}, all.err)))

InsertOne(model, opts, fail) ==
    LET docs == collections[GetCollection]
        result == DriverInsertOne(docs, nextId, ModelValue(model), opts, fail)
        calls == <<DriverCall("InsertOne", GetCollection, NoFilter, "", opts, result.err)>>
    IN IF result.err # ErrNil
         THEN Result(result.err, 0, <<>>, <<>>, result.docs, result.next, calls)
         ELSE Result(ErrNil, 0, result.ids, <<>>, result.docs, result.next, calls)

\* []interface{}{models}: the driver is given one value, the *[]T itself.
InsertMany(models, opts, fail) ==
    LET docs == collections[GetCollection]
        results == DriverInsertMany(docs, nextId, <<SliceValue(models)>>, opts, fail)
        calls == <<DriverCall("InsertMany", GetCollection, NoFilter, "", opts, results.err)>>
    IN IF results.err # ErrNil
         THEN Result(results.err, 0, <<>>, <<>>, results.docs, results.next, calls)
         ELSE Result(ErrNil, 0, results.ids, <<>>, results.docs, results.next, calls)

ReplaceOne(filter, model, opts, fail) ==
    LET docs == collections[GetCollection]
        result == DriverReplaceOne(docs, nextId, filter, ModelValue(model), opts, fail)
        calls == <<DriverCall("ReplaceOne", GetCollection, filter, "", opts, result.err)>>
    IN IF result.err # ErrNil
         THEN Result(result.err, 0, <<>>, <<>>, result.docs, result.next, calls)
         ELSE Result(ErrNil, result.modified, <<>>, <<>>, result.docs, result.next, calls)

UpdateOne(filter, update, opts, fail) ==
    LET docs == collections[GetCollection]
        result == DriverUpdateOne(docs, nextId, filter, update, opts, fail)
        calls == <<DriverCall("UpdateOne", GetCollection, filter, "", opts, result.err)>>
    IN IF result.err # ErrNil
         THEN Result(result.err, 0, <<>>, <<>>, result.docs, result.next, calls)
         ELSE Result(ErrNil, result.modified, <<>>, <<>>, result.docs, result.next, calls)

\* UpdateMany(ctx, filter, update): opts is not handed on.
UpdateMany(filter, update, opts, fail) ==
    LET docs == collections[GetCollection]
        result == DriverUpdateMany(docs, nextId, filter, update, {}, fail)
        calls == <<DriverCall("UpdateMany", GetCollection, filter, "", {}, result.err)>>
    IN IF result.err # ErrNil
         THEN Result(result.err, 0, <<>>, <<>>, result.docs, result.next, calls)
         ELSE Result(ErrNil, result.modified, <<>>, <<>>, result.docs, result.next, calls)

\* DeleteOne treating "nothing deleted" as the not-found error.
DeleteOneErrorsOnZero(filter, opts, fail) ==
    LET docs == collections[Model.collection]
        result == DriverDeleteOne(docs, nextId, filter, opts, fail)
        calls == <<DriverCall("DeleteOne", Model.collection, filter, "", opts, result.err)>>
    IN IF result.err # ErrNil
         THEN Result(result.err, 0, <<>>, <<>>, result.docs, result.next, calls)
         ELSE IF result.deleted = 0
           THEN Result(ErrNoDocuments, 0, <<>>, <<>>, result.docs, result.next, calls)
           ELSE Result(ErrNil, result.deleted, <<>>, <<>>, result.docs, result.next, calls)

DeleteOne(filter, opts, fail) ==
    LET docs == collections[GetCollection]
        result == DriverDeleteOne(docs, nextId, filter, opts, fail)
        calls == <<DriverCall("DeleteOne", GetCollection, filter, "", opts, result.err)>>
    IN IF result.err # ErrNil
         THEN Result(result.err, 0, <<>>, <<>>, result.docs, result.next, calls)
         ELSE Result(ErrNil, result.deleted, <<>>, <<>>, result.docs, result.next, calls)

DeleteMany(filter, opts, fail) ==
    LET docs == collections[GetCollection]
        result == DriverDeleteMany(docs, nextId, filter, opts, fail)
        calls == <<DriverCall("DeleteMany", GetCollection, filter, "", opts, result.err)>>
    IN IF result.err # ErrNil
         THEN Result(result.err, 0, <<>>, <<>>, result.docs, result.next, calls)
         ELSE Result(ErrNil, result.deleted, <<>>, <<>>, result.docs, result.next, calls)

\* InitRepository(database, model): the two fields of the new repository.
InitRepository(database, model) == [Database |-> database, Model |-> model]

----------------------------------------------------------------------------
(* A client of one repository *)

TheDatabase == "db"

\* The model handed to InitRepository: the zero value of the model type.
TheModel == ZeroT("users")

Models == { T(TheModel.collection, name, val) : name \in Names, val \in Vals }

\* Destinations for FindOne: a nil *T, a fresh T, a T holding earlier data.
Stale == T(TheModel.collection, "b", 1)
DestPtrs == { NilPtr(TheModel.collection), PtrTo(TheModel), PtrTo(Stale) }

\* Destinations for Find: slices of n nil pointers, or of n pointers to earlier data.
DestSlices ==
    { [i \in 1..n |-> p] : n \in 0..MaxSlice, p \in {NilPtr(TheModel.collection), PtrTo(Stale)} }

\* Arguments for InsertMany: slices of n models.
ModelSlices == { [i \in 1..n |-> T(TheModel.collection, name, 0)] : n \in 0..MaxSlice, name \in Names }

Stages == {"nil", "match", "bad"}

\* How the connection behaves during a call: fail is the operation's own
\* driver call failing; all is the cursor failing in cursor.All after k documents.
Outcome(fail, all, k) == [fail |-> fail, all |-> all, k |-> k]
Outcomes == { Outcome(f, FALSE, 0) : f \in BOOLEAN }
FindOutcomes == Outcomes \cup { Outcome(FALSE, TRUE, 1) }

Args(op, filter, opts, model, models, update, aggregate, out) ==
    [op |-> op, filter |-> filter, opts |-> opts, model |-> model, models |-> models,
     update |-> update, aggregate |-> aggregate, out |-> out]

NoPtr == NilPtr(TheModel.collection)
NoUpdate == [op |-> "", k |-> "", n |-> 0]
NoReturn == [err |-> ErrNil, count |-> 0, ids |-> <<>>, panic |-> FALSE, db |-> ""]
NoArgs == Args("", NoFilter, {}, NoPtr, <<>>, NoUpdate, "nil", Outcome(FALSE, FALSE, 0))

Init ==
    /\ Database = InitRepository(TheDatabase, TheModel).Database
    /\ Model = InitRepository(TheDatabase, TheModel).Model
    /\ collections = [c \in CollNames |-> <<>>]
    /\ nextId = 1
    /\ pc = "start"
    /\ call = NoArgs
    /\ pre = <<>>
    /\ ret = NoReturn
    /\ dest = <<>>
    /\ driverCalls = <<>>

\* The client calls a method with arguments a and is left with its result r.
Return(a, r) ==
    /\ r.next <= MaxId + 1
    /\ call' = a
    /\ pre' = collections[GetCollection]
    /\ ret' = [err |-> r.err, count |-> r.count, ids |-> r.ids, panic |-> r.panic, db |-> ""]
    /\ dest' = r.dest
    /\ driverCalls' = r.calls
    /\ collections' = [collections EXCEPT ![GetCollection] = r.docs]
    /\ nextId' = r.next
    /\ UNCHANGED <<Database, Model>>

\* The client is between two calls, and not in the middle of the scenario below.
Free == call = NoArgs /\ pc \in {"start", "done"} /\ pc' = "start"

\* The client is done with the results of its last call.
Forget ==
    /\ call # NoArgs
    /\ call' = NoArgs
    /\ pre' = <<>>
    /\ ret' = NoReturn
    /\ dest' = <<>>
    /\ driverCalls' = <<>>
    /\ UNCHANGED <<Database, Model, collections, nextId, pc>>

CallGetDB ==
    /\ Free
    /\ call' = Args("GetDB", NoFilter, {}, NoPtr, <<>>, NoUpdate, "nil", Outcome(FALSE, FALSE, 0))
    /\ pre' = collections[GetCollection]
    /\ ret' = [NoReturn EXCEPT !.db = GetDB]
    /\ dest' = <<>>
    /\ driverCalls' = <<>>
    /\ UNCHANGED <<Database, Model, collections, nextId>>

CallFindOne ==
    /\ Free
    /\ \E model \in DestPtrs, filter \in Filters, opts \in SUBSET {"skip"}, out \in Outcomes :
         \E r \in { FindOne(model, filter, opts, out.fail) } :
           Return(Args("FindOne", filter, opts, model, <<>>, NoUpdate, "nil", out), r)

CallFind ==
    /\ Free
    /\ \E models \in DestSlices, filter \in Filters, aggregate \in Stages,
       opts \in SUBSET {"limit"}, out \in FindOutcomes :
         \E r \in { Find(models, filter, aggregate, opts, out) } :
           Return(Args("Find", filter, opts, NoPtr, models, NoUpdate, aggregate, out), r)

CallInsertOne ==
    /\ Free
    /\ \E model \in Models, opts \in SUBSET {"bypass"}, out \in Outcomes :
         \E r \in { InsertOne(model, opts, out.fail) } :
           Return(Args("InsertOne", NoFilter, opts, PtrTo(model), <<>>, NoUpdate, "nil", out), r)

CallInsertMany ==
    /\ Free
    /\ \E models \in ModelSlices, opts \in SUBSET {"bypass"}, out \in Outcomes :
         \E r \in { InsertMany(models, opts, out.fail) } :
           Return(Args("InsertMany", NoFilter, opts, NoPtr, models, NoUpdate, "nil", out), r)

CallReplaceOne ==
    /\ Free
    /\ \E filter \in Filters, model \in Models, opts \in SUBSET {"upsert"}, out \in Outcomes :
         \E r \in { ReplaceOne(filter, model, opts, out.fail) } :
           Return(Args("ReplaceOne", filter, opts, PtrTo(model), <<>>, NoUpdate, "nil", out), r)

CallUpdateOne ==
    /\ Free
    /\ \E filter \in Filters, update \in Updates, opts \in SUBSET {"upsert"}, out \in Outcomes :
         \E r \in { UpdateOne(filter, update, opts, out.fail) } :
           Return(Args("UpdateOne", filter, opts, NoPtr, <<>>, update, "nil", out), r)

CallUpdateMany ==
    /\ Free
    /\ \E filter \in Filters, update \in Updates, opts \in SUBSET {"upsert"}, out \in Outcomes :
         \E r \in { UpdateMany(filter, update, opts, out.fail) } :
           Return(Args("UpdateMany", filter, opts, NoPtr, <<>>, update, "nil", out), r)

CallDeleteOne ==
    /\ Free
    /\ \E filter \in Filters, opts \in SUBSET {"hint"}, out \in Outcomes :
         \E r \in { DeleteOne(filter, opts, out.fail) } :
           Return(Args("DeleteOne", filter, opts, NoPtr, <<>>, NoUpdate, "nil", out), r)

CallDeleteMany ==
    /\ Free
    /\ \E filter \in Filters, opts \in SUBSET {"hint"}, out \in Outcomes :
         \E r \in { DeleteMany(filter, opts, out.fail) } :
           Return(Args("DeleteMany", filter, opts, NoPtr, <<>>, NoUpdate, "nil", out), r)

(* The scenario: with no document named "a" in the collection, insert      *)
(* {name: "a"}, FindOne {name: "a"}, DeleteOne {name: "a"}, FindOne again.  *)
(* A step on which the connection fails abandons the scenario.              *)

NameA(form) == Filter(form, IF form = "PD" THEN "p1" ELSE "", <<E("name", Str("a"))>>)

HasNamed(docs, name) == \E i \in 1..Len(docs) : "name" \in docs[i].has /\ docs[i].name = name

ScenarioInsert ==
    /\ call = NoArgs
    /\ pc \in {"start", "done"}
    /\ ~HasNamed(collections[GetCollection], "a")
    /\ \E val \in Vals, out \in Outcomes :
      /\ pc' = IF out.fail THEN "start" ELSE "inserted"
      /\ \E r \in { InsertOne(T(TheModel.collection, "a", val), {}, out.fail) } :
           Return(Args("InsertOne", NoFilter, {}, PtrTo(T(TheModel.collection, "a", val)), <<>>, NoUpdate, "nil", out), r)

ScenarioFindOne ==
    /\ call = NoArgs
    /\ pc = "inserted"
    /\ \E model \in DestPtrs \ {NoPtr}, form \in {"PD", "D", "M"}, out \in Outcomes :
      /\ pc' = IF out.fail THEN "start" ELSE "found"
      /\ \E r \in { FindOne(model, NameA(form), {}, out.fail) } :
           Return(Args("FindOne", NameA(form), {}, model, <<>>, NoUpdate, "nil", out), r)

ScenarioDeleteOne ==
    /\ call = NoArgs
    /\ pc = "found"
    /\ \E form \in {"PD", "D", "M"}, out \in Outcomes :
      /\ pc' = IF out.fail THEN "start" ELSE "deleted"
      /\ \E r \in { DeleteOne(NameA(form), {}, out.fail) } :
           Return(Args("DeleteOne", NameA(form), {}, NoPtr, <<>>, NoUpdate, "nil", out), r)

ScenarioFindOneAgain ==
    /\ call = NoArgs
    /\ pc = "deleted"
    /\ \E model \in DestPtrs \ {NoPtr}, form \in {"PD", "D", "M"}, out \in Outcomes :
      /\ pc' = IF out.fail THEN "start" ELSE "done"
      /\ \E r \in { FindOne(model, NameA(form), {}, out.fail) } :
           Return(Args("FindOne", NameA(form), {}, model, <<>>, NoUpdate, "nil", out), r)

Next ==
    \/ Forget
    \/ CallGetDB
    \/ CallFindOne
    \/ CallFind
    \/ CallInsertOne
    \/ CallInsertMany
    \/ CallReplaceOne
    \/ CallUpdateOne
    \/ CallUpdateMany
    \/ CallDeleteOne
    \/ CallDeleteMany
    \/ ScenarioInsert
    \/ ScenarioFindOne
    \/ ScenarioDeleteOne
    \/ ScenarioFindOneAgain

Spec == Init /\ [][Next]_vars

----------------------------------------------------------------------------
(* Properties *)

\* The documents of the bound collection now, and what the last call's filter
\* selected among the documents before the call.
Bound == collections[TheModel.collection]
FilterOk == Marshal(call.filter).err = ErrNil
Matched == Matching(pre, Marshal(call.filter).data)
Answered == ~call.out.fail /\ ~call.out.all

\* Document d's fields are what the model m holds.
Holds(m, d) ==
    /\ "name" \in d.has => m.name = d.name
    /\ "val" \in d.has => m.val = d.val

\* C1: a FindOne whose filter matches no document of the collection returns
\* nil and leaves the caller's model as it was; any driver error other than
\* ErrNoDocuments is returned by FindOne.
FindOneNoMatchIsSuccess ==
    call.op = "FindOne" =>
      /\ (FilterOk /\ Answered /\ Matched = <<>>) =>
           ret.err = ErrNil /\ ~ret.panic /\ dest = <<call.model>>
      /\ \A i \in 1..Len(driverCalls) :
           driverCalls[i].err \notin {ErrNil, ErrNoDocuments} => ret.err = driverCalls[i].err

FindOneNoMatchSeen ==
    /\ call.op = "FindOne" /\ ~call.model.isNil /\ call.model.v = Stale
    /\ pre # <<>> /\ FilterOk /\ Matched = <<>>
    /\ driverCalls # <<>> /\ driverCalls[1].err = ErrNoDocuments
    /\ ret.err = ErrNil /\ dest = <<call.model>>

\* C2: whenever a driver call made by an operation fails with error e, the
\* operation returns e (FindOne: every e other than ErrNoDocuments).
DriverErrorsSurface ==
    \A i \in 1..Len(driverCalls) :
      (driverCalls[i].err # ErrNil /\ ~(call.op = "FindOne" /\ driverCalls[i].err = ErrNoDocuments))
        => (~ret.panic /\ ret.err = driverCalls[i].err)

\* C3: after a Find that returns nil, the caller's slice holds exactly the
\* documents of the collection that match the filter.
FindPopulatesDestination ==
    (call.op = "Find" /\ call.opts = {} /\ ret.err = ErrNil /\ ~ret.panic) =>
      /\ Len(dest) = Len(Matched)
      /\ \A i \in 1..Len(dest) : ~dest[i].isNil /\ Holds(dest[i].v, Matched[i])

\* C4: InsertMany of N >= 1 models returns nil and N identifiers, and the
\* collection gains N documents, one per model.
InsertManyInsertsAll ==
    (call.op = "InsertMany" /\ Len(call.models) >= 1 /\ Answered) =>
      /\ ret.err = ErrNil
      /\ Len(ret.ids) = Len(call.models)
      /\ Len(Bound) = Len(pre) + Len(call.models)
      /\ \A i \in 1..Len(call.models) : Holds(call.models[i], Bound[Len(pre) + i])

\* C5: the scenario's four results, in order; and a FindOne whose filter
\* matches exactly one document populates the destination with its fields.
ScenarioResults ==
    /\ (pc = "inserted" /\ call # NoArgs) =>
         ret.err = ErrNil /\ Len(ret.ids) = 1 /\ ret.ids[1] >= 1
    /\ (pc = "found" /\ call # NoArgs) =>
         /\ ret.err = ErrNil /\ ~dest[1].isNil /\ dest[1].v.name = "a"
         /\ \E i \in 1..Len(Bound) : Bound[i].name = "a" /\ Holds(dest[1].v, Bound[i])
    /\ (pc = "deleted" /\ call # NoArgs) =>
         ret.err = ErrNil /\ ret.count = 1 /\ ~HasNamed(Bound, "a")
    /\ (pc = "done" /\ call # NoArgs) =>
         ret.err = ErrNil /\ dest = <<call.model>>
    /\ (call.op = "FindOne" /\ ~call.model.isNil /\ FilterOk /\ Answered /\ Len(Matched) = 1) =>
         ret.err = ErrNil /\ ~dest[1].isNil /\ Holds(dest[1].v, Matched[1])

ScenarioDone ==
    /\ pc = "done" /\ call.op = "FindOne" /\ call.model = PtrTo(Stale)
    /\ ret.err = ErrNil /\ dest = <<PtrTo(Stale)>>
    /\ Bound # <<>>

\* C6 as claimed: Update/Delete with a filter matching nothing return (nil, 0)
\* and leave the collection as it was.
ZeroMatchWrites == {"UpdateOne", "UpdateMany", "DeleteOne", "DeleteMany"}

ZeroMatchLeavesCollection ==
    (call.op \in ZeroMatchWrites /\ FilterOk /\ Answered /\ Matched = <<>>) =>
      ret.err = ErrNil /\ ret.count = 0 /\ Bound = pre

\* C6 as amended: they return (nil, 0); the collection is as it was, except
\* after UpdateOne with the upsert modifier, which has inserted one document.
ZeroMatchReturnsZero ==
    (call.op \in ZeroMatchWrites /\ FilterOk /\ Answered /\ Matched = <<>>) =>
      /\ ret.err = ErrNil /\ ret.count = 0
      /\ IF call.op = "UpdateOne" /\ "upsert" \in call.opts
           THEN Len(Bound) = Len(pre) + 1 /\ SubSeq(Bound, 1, Len(pre)) = pre
           ELSE Bound = pre

ZeroMatchSeen ==
    /\ call.op = "DeleteMany" /\ pre # <<>> /\ FilterOk /\ Answered /\ Matched = <<>>
    /\ ret.err = ErrNil /\ ret.count = 0 /\ Bound = pre

\* The filter FindOne / Find handed to the driver's find: what ToBson returned.
Normalized ==
    LET S == { i \in 1..Len(driverCalls) : driverCalls[i].method \in {"FindOne", "Find"} } IN
    IF S = {} THEN NoFilter ELSE driverCalls[CHOOSE i \in S : TRUE].filter

\* C7 as claimed: an ordered document, passed by value or by reference, comes
\* out of ToBson as the same value, with no error and without being
\* marshalled and unmarshalled.
ToBsonIdentityAnyForm ==
    (call.op \in {"FindOne", "Find"} /\ call.filter.form \in {"PD", "D"}) =>
      /\ ToBson(call.filter).err = ErrNil
      /\ Normalized.elems = call.filter.elems
      /\ Normalized.addr # "new"

\* C7 as amended: a *bson.D comes out of ToBson as that same pointer, with no
\* error; a bson.D passed by value is marshalled and unmarshalled into a new
\* document, or is an error when it has an element with no encoder.
ToBsonIdentityOnPointer ==
    call.op \in {"FindOne", "Find"} =>
      /\ call.filter.form = "PD" =>
           /\ ToBson(call.filter) = [doc |-> call.filter, err |-> ErrNil]
           /\ Normalized = call.filter
      /\ call.filter.form = "D" =>
           \/ ToBson(call.filter).err = ErrMarshal /\ driverCalls = <<>> /\ ret.err = ErrMarshal
           \/ Normalized = Filter("PD", "new", Marshal(call.filter).data)

ToBsonPointerSeen ==
    /\ call.op = "FindOne" /\ call.filter.form = "PD" /\ ~FilterOk
    /\ Normalized = call.filter
    /\ driverCalls[1].err = ErrMarshal

ModifiersReachDriver ==
    \A i \in 1..Len(driverCalls) :
      driverCalls[i].method = call.op => driverCalls[i].opts = call.opts

====
